---- MODULE Spec2Model ----
(***************************************************************************)
(* Model of spectest.go: the query observer that aggregates per-host       *)
(* metrics (hostMetrics, testQueryObserver.ObserveQuery, GetMetrics), the  *)
(* retry policy RT, and the harness loop of main.                          *)
(***************************************************************************)
EXTENDS Integers, Sequences, FiniteSets, TLC

(***************************************************************************)
(* Bounds of the model.                                                    *)
(***************************************************************************)
\* Number of ObserveQuery calls a behaviour makes.
MaxEvents == 3
\* Largest q.Metrics.Attempts an observed query carries.
MaxEvAttempts == 2
\* Largest attempts count of an entry of a metrics map given to GetMetrics.
MaxStoreAttempts == 4

(***************************************************************************)
(* Program constants.                                                      *)
(***************************************************************************)
\* q.Metrics.TotalLatency is a time.Duration (nanoseconds); line 40 divides
\* it by 1000000 to get milliseconds.
NanosPerMilli == 1000000

\* cluster.RetryPolicy = &RT{num: 3} (line 81).
RTNum == 3

\* cluster.Timeout = 10 * time.Second (line 80): an attempt still outstanding
\* resolves, with a result or a timeout error, within this many seconds.
ClusterTimeoutSeconds == 10

\* <-time.After(1 * time.Second) (line 102): main waits this many seconds
\* between its last Exec and GetMetrics.
FinalWaitSeconds == 1

\* q.Host.ConnectAddress().String(): the key of the metrics map.
Hosts == {"h1", "h2"}

\* Values of q.Metrics.TotalLatency, in nanoseconds: 10 ms and 1.5 ms.
Latencies == {10 * NanosPerMilli, NanosPerMilli + (NanosPerMilli \div 2)}

\* gocql.ObservedQuery, the fields ObserveQuery reads: Host, Metrics.Attempts,
\* Metrics.TotalLatency and Err (err is TRUE when q.Err is not nil).
Events ==
    [host : Hosts, attempts : 1..MaxEvAttempts, totalLatency : Latencies,
     err : BOOLEAN]

\* The calls of ObserveQuery, numbered in the order they are made.
Calls == 1..MaxEvents

VARIABLES
    metrics,      \* testQueryObserver.metrics: map[string]*hostMetrics
    pc,           \* pc[c]: where call c of ObserveQuery stands
    q,            \* q[c]: the ObservedQuery call c was given
    curAttempts,  \* curAttempts[c]: the local of call c (line 33, 36)
    curLatency,   \* curLatency[c]: the local of call c (line 34, 37)
    crashed,      \* the Go runtime ended the process (concurrent map access)
    gmPc,         \* where the call of GetMetrics stands
    visited,      \* the hosts the range loop of GetMetrics has passed
    printed,      \* the summary lines GetMetrics has printed, in order
    cycle,        \* i of the loop of main (line 90): queries executed so far
    qstate,       \* the state of the logical query being executed
    qhost,        \* the host the query's attempts go to
    attemptsSoFar,\* q.Attempts(): attempts of the query launched so far
    metricsAtExec,\* the metrics map as it was when the query's Exec began
    elapsed       \* whole seconds passed since the last Exec of main returned

\* The state of the observer and of the calls of ObserveQuery.
obsVars == <<metrics, pc, q, curAttempts, curLatency, crashed>>
\* The state of the call of GetMetrics.
gmVars == <<gmPc, visited, printed>>
\* The state of the loop of main and of the query it executes.
drvVars == <<cycle, qstate, qhost, attemptsSoFar, metricsAtExec, elapsed>>

vars == <<obsVars, gmVars, drvVars>>

(***************************************************************************)
(* hostMetrics and the metrics map.                                        *)
(***************************************************************************)
\* type hostMetrics struct { attempts int; latency int }
hostMetrics(a, l) == [attempts |-> a, latency |-> l]

\* make(map[string]*hostMetrics): no host has an entry.
EmptyMetrics == [h \in {} |-> hostMetrics(0, 0)]

\* The value q[c] holds before call c is made.
NoEvent == [host |-> "h1", attempts |-> 1, totalLatency |-> 0, err |-> TRUE]

(***************************************************************************)
(* ObserveQuery, lines 30-46.                                              *)
(***************************************************************************)
\* Lines 32-33, 35-36: curAttempts is 0 unless the host has an entry.
CurAttempts(m, host) == IF host \in DOMAIN m THEN m[host].attempts ELSE 0

\* Lines 32, 34-35, 37: curLatency is 0 unless the host has an entry.
CurLatency(m, host) == IF host \in DOMAIN m THEN m[host].latency ELSE 0

\* int(q.Metrics.TotalLatency/1000000): Go's integer division of a
\* non-negative duration.
Millis(ns) == ns \div NanosPerMilli

\* A variant of Merged that stores the merged entry whatever q.Err is.
MergedIgnoringErr(m, e, ca, cl) ==
    [h \in DOMAIN m \cup {e.host} |->
        IF h = e.host
        THEN hostMetrics(e.attempts + ca, cl + Millis(e.totalLatency))
        ELSE m[h]]

\* A variant of Merged that adds the attempts but stores the event's latency
\* alone, dropping the latency accumulated so far.
MergedDroppingLatency(m, e, ca, cl) ==
    IF e.err
    THEN m
    ELSE [h \in DOMAIN m \cup {e.host} |->
            IF h = e.host
            THEN hostMetrics(e.attempts + ca, Millis(e.totalLatency))
            ELSE m[h]]

\* A variant of Merged that stores the event's own attempts and latency,
\* ignoring what the host's entry held.
MergedOverwriting(m, e, ca, cl) ==
    IF e.err
    THEN m
    ELSE [h \in DOMAIN m \cup {e.host} |->
            IF h = e.host
            THEN hostMetrics(e.attempts, Millis(e.totalLatency))
            ELSE m[h]]

\* A variant of Merged that builds the new map with the event's host alone,
\* losing the entries of the other hosts.
MergedDroppingOthers(m, e, ca, cl) ==
    IF e.err
    THEN m
    ELSE [h \in {e.host} |->
            hostMetrics(e.attempts + ca, cl + Millis(e.totalLatency))]

\* A variant of Merged that counts one attempt per event instead of
\* q.Metrics.Attempts.
MergedCountingOne(m, e, ca, cl) ==
    IF e.err
    THEN m
    ELSE [h \in DOMAIN m \cup {e.host} |->
            IF h = e.host
            THEN hostMetrics(1 + ca, cl + Millis(e.totalLatency))
            ELSE m[h]]

\* Lines 39-41: when q.Err is nil the host's entry is replaced by a new
\* hostMetrics built from the locals and the event; otherwise the map is left
\* alone.
Merged(m, e, ca, cl) ==
    IF e.err
    THEN m
    ELSE [h \in DOMAIN m \cup {e.host} |->
            IF h = e.host
            THEN hostMetrics(e.attempts + ca, cl + Millis(e.totalLatency))
            ELSE m[h]]

\* Some call is between its entry and its return.
InProgress(c) == pc[c] \in {"entered", "read"}

\* The next step of call c reads the map (line 32).
WillRead(c) == pc[c] = "entered"

\* The next step of call c writes the map (line 40).
WillWrite(c) == pc[c] = "read" /\ ~q[c].err

\* Every call numbered below c has been made.
IsNextCall(c) == \A d \in Calls : d < c => pc[d] # "idle"

\* The caller invokes ObserveQuery(ctx, e) on a goroutine of its own; calls
\* are numbered in the order they start.
Deliver(c, e) ==
    /\ ~crashed
    /\ pc[c] = "idle"
    /\ IsNextCall(c)
    /\ pc' = [pc EXCEPT ![c] = "entered"]
    /\ q' = [q EXCEPT ![c] = e]
    /\ UNCHANGED <<metrics, curAttempts, curLatency, crashed>>

\* Lines 31-38 of call c: the locals are read from the host's entry.
ObserveRead(c) ==
    /\ ~crashed
    /\ pc[c] = "entered"
    /\ curAttempts' = [curAttempts EXCEPT ![c] = CurAttempts(metrics, q[c].host)]
    /\ curLatency' = [curLatency EXCEPT ![c] = CurLatency(metrics, q[c].host)]
    /\ pc' = [pc EXCEPT ![c] = "read"]
    /\ UNCHANGED <<metrics, q, crashed>>

\* Lines 39-46 of call c: the entry is stored from the locals read earlier,
\* and the call returns (the verbose print changes no state).
ObserveWrite(c) ==
    /\ ~crashed
    /\ pc[c] = "read"
    /\ metrics' = Merged(metrics, q[c], curAttempts[c], curLatency[c])
    /\ pc' = [pc EXCEPT ![c] = "returned"]
    /\ curAttempts' = [curAttempts EXCEPT ![c] = 0]
    /\ curLatency' = [curLatency EXCEPT ![c] = 0]
    /\ UNCHANGED <<q, crashed>>

\* The map is accessed with no lock (lines 32 and 40): when a write of one
\* call and a read or write of another are both about to happen, the accesses
\* race, and the Go runtime may end the process with "concurrent map writes"
\* or "concurrent map read and map write".
MapRace(c, d) == c # d /\ WillWrite(c) /\ (WillRead(d) \/ WillWrite(d))

ConcurrentMapFault ==
    /\ ~crashed
    /\ \E c, d \in Calls : MapRace(c, d)
    /\ crashed' = TRUE
    /\ UNCHANGED <<metrics, pc, q, curAttempts, curLatency>>

\* Lines 30-46 run with no other call in progress: the whole handler as one
\* step.
ObserveQuery(c, e) ==
    /\ ~crashed
    /\ pc[c] = "idle"
    /\ IsNextCall(c)
    /\ \A d \in Calls : ~InProgress(d)
    /\ q' = [q EXCEPT ![c] = e]
    /\ metrics' = Merged(metrics, e, CurAttempts(metrics, e.host),
                         CurLatency(metrics, e.host))
    /\ pc' = [pc EXCEPT ![c] = "returned"]
    /\ UNCHANGED <<curAttempts, curLatency, crashed>>

(***************************************************************************)
(* GetMetrics, lines 48-52.                                                *)
(***************************************************************************)
\* A variant of AvgLatency that rounds the quotient up instead of truncating.
AvgLatencyRoundingUp(m) == (m.latency + m.attempts - 1) \div m.attempts

\* m.latency/m.attempts (line 50): Go's integer division of non-negative ints.
AvgLatency(m) == m.latency \div m.attempts

\* The line "Host: %s, Attempts: %v, Avg Latency: %vms" printed for host h.
SummaryLine(h, m) == [host |-> h, attempts |-> m.attempts, avg |-> AvgLatency(m)]

\* One iteration of the range loop (lines 49-51), for a host the loop has not
\* passed yet; Go ranges over a map in no fixed order.  Dividing by an
\* attempts of 0 is a run-time panic (integer divide by zero), which ends
\* the call and the process.
GetMetricsIterate(h) ==
    /\ gmPc \in {"idle", "iterating"}
    /\ h \in DOMAIN metrics \ visited
    /\ IF metrics[h].attempts = 0
       THEN /\ gmPc' = "panicked"
            /\ UNCHANGED <<visited, printed>>
       ELSE /\ gmPc' = "iterating"
            /\ visited' = visited \cup {h}
            /\ printed' = Append(printed, SummaryLine(h, metrics[h]))
    /\ UNCHANGED <<obsVars, drvVars>>

\* The range loop has passed every host of the map: GetMetrics returns.
GetMetricsReturn ==
    /\ gmPc \in {"idle", "iterating"}
    /\ DOMAIN metrics \subseteq visited
    /\ gmPc' = "done"
    /\ UNCHANGED <<visited, printed, obsVars, drvVars>>

(***************************************************************************)
(* The retry policy RT, lines 54-65.                                       *)
(***************************************************************************)
\* The errors an attempt can end with.
Errors == {"timeout", "unavailable"}

\* func (rt *RT) Attempt(q): q.Attempts() <= rt.num.
Attempt(attempts) == attempts <= RTNum

\* func (rt *RT) GetRetryType(err): gocql.Rethrow for every error.
GetRetryType(err) == "Rethrow"

(***************************************************************************)
(* The execution of one query (query.Exec(), line 98) under the retry      *)
(* policy, with queries not idempotent (specExec false, the default of     *)
(* line 69): one attempt at a time.                                        *)
(***************************************************************************)
\* The retry decision after an attempt that failed with err, attemptsSoFar
\* attempts having been made: no retry once Attempt answers false; otherwise
\* the retry type decides, Retry the same host, RetryNextHost another host,
\* anything else (Rethrow, Ignore) none.
Decide(attempts, err) ==
    IF ~Attempt(attempts)
    THEN "RetryStop"
    ELSE CASE GetRetryType(err) = "Retry" -> "RetrySameHost"
           [] GetRetryType(err) = "RetryNextHost" -> "RetryNextHost"
           [] OTHER -> "RetryStop"

\* The terminal event of the query being executed.
TerminalEvent(lat, failed) ==
    [host |-> qhost, attempts |-> attemptsSoFar, totalLatency |-> lat,
     err |-> failed]

\* The loop body of main (lines 91-98): a query is built and Exec launches
\* its first attempt on host h.  The loop runs cycles = 10000 times (line
\* 73); here it runs at most MaxEvents times.
Exec(h) ==
    /\ cycle < MaxEvents
    /\ qstate \in {"Pending", "Completed", "Failed"}
    /\ cycle' = cycle + 1
    /\ qstate' = "AttemptRunning"
    /\ qhost' = h
    /\ attemptsSoFar' = 1
    /\ metricsAtExec' = metrics
    /\ UNCHANGED <<elapsed, obsVars, gmVars>>

\* The running attempt returns success after lat: the query is Completed and
\* its terminal event goes to the observer.
AttemptSucceeds(lat) ==
    /\ qstate = "AttemptRunning"
    /\ qstate' = "Completed"
    /\ \E c \in Calls : ObserveQuery(c, TerminalEvent(lat, FALSE))
    /\ UNCHANGED <<cycle, qhost, attemptsSoFar, metricsAtExec, elapsed, gmVars>>

\* The running attempt fails with err after lat (an attempt that exceeds
\* cluster.Timeout fails too): the retry policy is consulted.
AttemptFails(lat, err) ==
    /\ qstate = "AttemptRunning"
    /\ IF Decide(attemptsSoFar, err) = "RetryStop"
       THEN /\ qstate' = "Failed"
            /\ \E c \in Calls : ObserveQuery(c, TerminalEvent(lat, TRUE))
            /\ UNCHANGED <<qhost, attemptsSoFar>>
       ELSE /\ attemptsSoFar' = attemptsSoFar + 1
            /\ qhost' = IF Decide(attemptsSoFar, err) = "RetryNextHost"
                        THEN CHOOSE h \in Hosts : h # qhost
                        ELSE qhost
            /\ UNCHANGED <<qstate, obsVars>>
    /\ UNCHANGED <<cycle, metricsAtExec, elapsed, gmVars>>

(***************************************************************************)
(* The end of main, lines 101-106: the wait, then GetMetrics, while the    *)
(* attempts still outstanding report to the observer as they resolve.      *)
(***************************************************************************)
\* A second passes.  Nothing is outstanding once ClusterTimeoutSeconds have
\* passed, and the process is gone once main has returned.
Tick ==
    /\ ~crashed
    /\ gmPc # "done"
    /\ elapsed < ClusterTimeoutSeconds
    /\ elapsed' = elapsed + 1
    /\ UNCHANGED <<cycle, qstate, qhost, attemptsSoFar, metricsAtExec, obsVars, gmVars>>

\* An attempt resolves and ObserveQuery is called with its event e, while
\* main, which shares the map with no lock and no wait on the caller, is
\* waiting or is in GetMetrics.
ObserveOutstanding(c, e) ==
    /\ gmPc # "done"
    /\ ObserveQuery(c, e)
    /\ UNCHANGED <<gmVars, drvVars>>

\* The write of line 40 and the range loop of line 49 access the map with no
\* lock: the Go runtime may end the process with "concurrent map iteration
\* and map write".
MapIterationFault(c, e) ==
    /\ ~crashed
    /\ gmPc = "iterating"
    /\ pc[c] = "idle"
    /\ IsNextCall(c)
    /\ ~e.err
    /\ pc' = [pc EXCEPT ![c] = "entered"]
    /\ q' = [q EXCEPT ![c] = e]
    /\ crashed' = TRUE
    /\ UNCHANGED <<metrics, curAttempts, curLatency, gmVars, drvVars>>

\* Line 106, reached once the wait of line 102 is over: one iteration of
\* GetMetrics.  An entry created while the loop runs is taken as produced
\* by it.
FinalIterate(h) ==
    /\ ~crashed
    /\ elapsed >= FinalWaitSeconds
    /\ GetMetricsIterate(h)

\* GetMetrics returns, and main with it.
FinalReturn ==
    /\ ~crashed
    /\ elapsed >= FinalWaitSeconds
    /\ GetMetricsReturn

\* observer := &testQueryObserver{metrics: make(map[string]*hostMetrics), ...}
\* (line 88): an empty map, and no call made yet.
ObsInit ==
    /\ metrics = EmptyMetrics
    /\ pc = [c \in Calls |-> "idle"]
    /\ q = [c \in Calls |-> NoEvent]
    /\ curAttempts = [c \in Calls |-> 0]
    /\ curLatency = [c \in Calls |-> 0]
    /\ crashed = FALSE

\* GetMetrics has not been called.
GmInit ==
    /\ gmPc = "idle"
    /\ visited = {}
    /\ printed = << >>

\* The loop of main has not begun (line 90, i := 0).
DrvInit ==
    /\ cycle = 0
    /\ qstate = "Pending"
    /\ qhost = "h1"
    /\ attemptsSoFar = 0
    /\ metricsAtExec = EmptyMetrics
    /\ elapsed = 0

Init == ObsInit /\ GmInit /\ DrvInit

\* ObserveQuery called from concurrent goroutines.
Next ==
    \/ \E c \in Calls, e \in Events : Deliver(c, e) /\ UNCHANGED <<gmVars, drvVars>>
    \/ \E c \in Calls : ObserveRead(c) /\ UNCHANGED <<gmVars, drvVars>>
    \/ \E c \in Calls : ObserveWrite(c) /\ UNCHANGED <<gmVars, drvVars>>
    \/ ConcurrentMapFault /\ UNCHANGED <<gmVars, drvVars>>

Spec == Init /\ [][Next]_vars

\* ObserveQuery called one call after the other.
SeqNext ==
    \E c \in Calls, e \in Events : ObserveQuery(c, e) /\ UNCHANGED <<gmVars, drvVars>>

SeqSpec == Init /\ [][SeqNext]_vars

\* The metrics maps GetMetrics is checked on: any hosts, any attempts count
\* from 0 to MaxStoreAttempts, any of a few latency totals.
StoreLatencies == {0, 7, 400}

Stores ==
    UNION {[S -> [attempts : 0..MaxStoreAttempts, latency : StoreLatencies]] :
           S \in SUBSET Hosts}

SummaryInit ==
    /\ metrics \in Stores
    /\ pc = [c \in Calls |-> "idle"]
    /\ q = [c \in Calls |-> NoEvent]
    /\ curAttempts = [c \in Calls |-> 0]
    /\ curLatency = [c \in Calls |-> 0]
    /\ crashed = FALSE
    /\ GmInit
    /\ DrvInit

\* GetMetrics called on a map that no longer changes.
SummaryNext ==
    \/ \E h \in Hosts : GetMetricsIterate(h)
    \/ GetMetricsReturn

SummarySpec == SummaryInit /\ [][SummaryNext]_vars

\* The metrics maps ObserveQuery can build: every entry has attempts >= 1,
\* as line 40 adds q.Metrics.Attempts >= 1 to a count that starts at 0.
BuiltStores == {m \in Stores : \A h \in DOMAIN m : m[h].attempts >= 1}

ReportInit ==
    /\ metrics \in BuiltStores
    /\ pc = [c \in Calls |-> "idle"]
    /\ q = [c \in Calls |-> NoEvent]
    /\ curAttempts = [c \in Calls |-> 0]
    /\ curLatency = [c \in Calls |-> 0]
    /\ crashed = FALSE
    /\ GmInit
    /\ DrvInit

\* GetMetrics called at the end of main (line 106) on a map ObserveQuery
\* built, which no longer changes.
ReportSpec == ReportInit /\ [][SummaryNext]_vars

\* The loop of main with queries that are not idempotent.
DriverNext ==
    \/ \E h \in Hosts : Exec(h)
    \/ \E lat \in Latencies : AttemptSucceeds(lat)
    \/ \E lat \in Latencies, err \in Errors : AttemptFails(lat, err)

DriverSpec == Init /\ [][DriverNext]_vars

\* The end of main: the loop is over, attempts are still outstanding.
MainNext ==
    \/ Tick
    \/ \E c \in Calls, e \in Events : ObserveOutstanding(c, e)
    \/ \E c \in Calls, e \in Events : MapIterationFault(c, e)
    \/ \E h \in Hosts : FinalIterate(h)
    \/ FinalReturn

MainSpec == Init /\ [][MainNext]_vars

(***************************************************************************)
(* Properties.                                                             *)
(***************************************************************************)
RECURSIVE SumF(_, _)
\* The sum of f[x] over the x of the finite set S.
SumF(f, S) ==
    IF S = {}
    THEN 0
    ELSE LET x == CHOOSE y \in S : TRUE IN f[x] + SumF(f, S \ {x})

\* The calls made so far, and those that have returned.
Made == {c \in Calls : pc[c] # "idle"}
Returned == {c \in Calls : pc[c] = "returned"}

\* The returned calls whose event was a success, an error; those for host h.
SuccessCalls == {c \in Returned : ~q[c].err}
ErrorCalls == {c \in Returned : q[c].err}
SuccessCallsFor(h) == {c \in SuccessCalls : q[c].host = h}

\* A success event for host h with attempts = 1 and latency = 10 ms.
UnitEvent(h) ==
    [host |-> h, attempts |-> 1, totalLatency |-> 10 * NanosPerMilli,
     err |-> FALSE]

\* C1: when N >= 1 concurrent ObserveQuery calls for the same host, each a
\* success event with attempts = 1 and latency = 10 ms, have all returned,
\* the host's entry is attempts = N and latency = 10 * N, whatever the
\* interleaving: no update is lost.
C1_NoLostUpdate ==
    \A h \in Hosts :
        (/\ Made # {}
         /\ Made = Returned
         /\ \A c \in Made : q[c] = UnitEvent(h))
        => (/\ h \in DOMAIN metrics
            /\ metrics[h] = hostMetrics(Cardinality(Made), 10 * Cardinality(Made)))

\* C3: after any sequence of ObserveQuery events, successes and errors
\* mixed, over any hosts, the attempts recorded in the metrics map, summed
\* over all hosts, equal the attempts of the success events summed; error
\* events contribute nothing.
C3_AttemptsSum ==
    SumF([h \in DOMAIN metrics |-> metrics[h].attempts], DOMAIN metrics)
        = SumF([c \in Calls |-> q[c].attempts], SuccessCalls)

\* C3 witness: three events have been observed, one of them an error and one
\* of them with more than one attempt, and both hosts have an entry.
C3_Witness ==
    /\ Returned = Calls
    /\ ErrorCalls # {}
    /\ DOMAIN metrics = Hosts
    /\ \E c \in SuccessCalls : q[c].attempts > 1

\* C4: an ObserveQuery call whose event carries an error leaves the metrics
\* map exactly as it was: no entry changes and none is created, also when
\* the event's host has no entry yet.
C4_ErrorLeavesStore ==
    [][\A c \in Calls :
          (pc[c] = "idle" /\ pc'[c] = "returned" /\ q'[c].err)
          => metrics' = metrics]_vars

\* C4 witness: an error event was observed for a host that has no entry,
\* while another host has one.
C4_Witness ==
    /\ \E c \in ErrorCalls : q[c].host \notin DOMAIN metrics
    /\ DOMAIN metrics # {}

\* C5: with RT{num: 3} and every attempt of a query failing, the query is
\* Failed after exactly 3 attempts, and the metrics map is as it was when the
\* query began.
C5_FailsAfterThreeAttempts ==
    qstate = "Failed" => (attemptsSoFar = RTNum /\ metrics = metricsAtExec)

\* C9: GetMetrics never aborts with a division by zero, whatever the map
\* holds, an entry with attempts = 0 included.
C9_GetMetricsNeverPanics == gmPc # "panicked"

LinesFor(h) == {i \in 1..Len(printed) : printed[i].host = h}

\* C11: GetMetrics reports exactly one summary per host present in the map
\* and no others, with that host's attempts and an average latency equal to
\* the integer quotient of its latency by its attempts (attempts = 4 and
\* latency = 400 give 100); it does not change the map.
C11_OneSummaryPerHost ==
    /\ [](/\ gmPc # "panicked"
          /\ \A i \in 1..Len(printed) :
                LET h == printed[i].host
                    l == printed[i]
                IN  /\ h \in DOMAIN metrics
                    /\ LinesFor(h) = {i}
                    /\ l.attempts = metrics[h].attempts
                    /\ l.avg * metrics[h].attempts <= metrics[h].latency
                    /\ metrics[h].latency < (l.avg + 1) * metrics[h].attempts
                    /\ metrics[h] = hostMetrics(4, 400) => l.avg = 100
          /\ gmPc = "done" => \A h \in DOMAIN metrics : LinesFor(h) # {})
    /\ [][metrics' = metrics]_vars

\* C11 witness: GetMetrics has returned on a map with both hosts, one entry
\* being attempts = 4, latency = 400 and the other having a latency its
\* attempts do not divide.
C11_Witness ==
    /\ gmPc = "done"
    /\ Len(printed) = 2
    /\ \E h \in DOMAIN metrics : metrics[h] = hostMetrics(4, 400)
    /\ \E h \in DOMAIN metrics : metrics[h] = hostMetrics(4, 7)

\* The number of calls that have returned; called one after the other, they
\* are the calls 1..NumReturned.
NumReturned == Cardinality(Returned)

\* The last two calls were given the same success event.
DuplicateDelivered ==
    /\ NumReturned >= 2
    /\ Returned = 1..NumReturned
    /\ ~q[NumReturned].err
    /\ q[NumReturned - 1] = q[NumReturned]

\* The success events for host h observed before the last two calls.
CallsBeforeDuplicate(h) == SuccessCallsFor(h) \ {NumReturned - 1, NumReturned}

\* C13 as amended: delivering the same success event (attempts a, latency l)
\* twice adds 2a attempts and twice l in whole milliseconds (2 * (l / 1ms,
\* truncated)) to the host's entry: it doubles the contribution of a single
\* delivery.
C13_DuplicateDoubles ==
    DuplicateDelivered =>
        LET e == q[NumReturned]
            before == CallsBeforeDuplicate(e.host)
        IN  /\ e.host \in DOMAIN metrics
            /\ metrics[e.host].attempts
                 = SumF([c \in Calls |-> q[c].attempts], before) + 2 * e.attempts
            /\ metrics[e.host].latency
                 = SumF([c \in Calls |-> Millis(q[c].totalLatency)], before)
                   + 2 * Millis(e.totalLatency)

\* C13 as stated: delivering the same success event (attempts a, latency l)
\* twice adds 2a attempts and 2l latency, in the map's unit (milliseconds),
\* to the host's entry.
C13_DuplicateAddsTwiceLatency ==
    DuplicateDelivered =>
        LET e == q[NumReturned]
            before == CallsBeforeDuplicate(e.host)
        IN  /\ e.host \in DOMAIN metrics
            /\ metrics[e.host].attempts
                 = SumF([c \in Calls |-> q[c].attempts], before) + 2 * e.attempts
            /\ metrics[e.host].latency
                 = SumF([c \in Calls |-> Millis(q[c].totalLatency)], before)
                   + Millis(2 * e.totalLatency)

\* C13 witness: after a success event for a host, another success event for
\* that host, with 2 attempts, was delivered twice.
C13_Witness ==
    /\ DuplicateDelivered
    /\ NumReturned = 3
    /\ q[3].attempts = 2
    /\ CallsBeforeDuplicate(q[3].host) = {1}

\* C14: whatever the error, the retry policy's decision allows a retry (on
\* the same host, never RetryNextHost) while attemptsSoFar <= N and is
\* RetryStop once attemptsSoFar > N.
C14_RetryWithinBudget ==
    qstate = "AttemptRunning" =>
        \A err \in Errors :
            Decide(attemptsSoFar, err)
                = IF attemptsSoFar <= RTNum THEN "RetrySameHost" ELSE "RetryStop"

\* C15: when the observer processes the success event of a completed query,
\* the entry of the event's host grows by the event's attempts and by the
\* event's latency (in milliseconds), being created if the host had none,
\* and the entry of every other host is unchanged.
C15_SuccessCreditsHost ==
    [][\A c \in Calls :
          (pc[c] = "idle" /\ pc'[c] = "returned" /\ ~q'[c].err)
          => LET e == q'[c]
                 oldAttempts ==
                     IF e.host \in DOMAIN metrics THEN metrics[e.host].attempts ELSE 0
                 oldLatency ==
                     IF e.host \in DOMAIN metrics THEN metrics[e.host].latency ELSE 0
             IN  /\ DOMAIN metrics' = DOMAIN metrics \cup {e.host}
                 /\ metrics'[e.host].attempts = oldAttempts + e.attempts
                 /\ metrics'[e.host].latency
                      = oldLatency + (e.totalLatency \div NanosPerMilli)
                 /\ \A h \in DOMAIN metrics \ {e.host} : metrics'[h] = metrics[h]]_vars

\* C15 witness: with entries for both hosts in the map, a success event with
\* 2 attempts was observed for a host that had an entry already.
C15_Witness ==
    /\ Returned = Calls
    /\ ErrorCalls = {}
    /\ DOMAIN metrics = Hosts
    /\ q[3].host = q[1].host
    /\ q[2].host # q[1].host
    /\ q[3].attempts = 2

\* C18: under any interleaving of concurrent ObserveQuery calls, the
\* attempts and the latency recorded for a host never decrease from one state
\* to the next: a stale write never replaces an entry with a smaller one.
C18_NeverDecreases ==
    [][\A h \in DOMAIN metrics :
          /\ h \in DOMAIN metrics'
          /\ metrics'[h].attempts >= metrics[h].attempts
          /\ metrics'[h].latency >= metrics[h].latency]_vars

\* C19: the final summary is computed on a quiescent map: no ObserveQuery
\* call touches the map once GetMetrics has started, so every printed line
\* accounts for every success event the observer receives for its host,
\* those of attempts still outstanding after the last Exec included.
C19_SummaryOnQuiescentStore ==
    /\ ~crashed
    /\ \A i \in 1..Len(printed) :
          printed[i].attempts
              = SumF([c \in Calls |-> q[c].attempts], SuccessCallsFor(printed[i].host))

====
